---- MODULE Spec2Model ----
(***************************************************************************)
(* TimersManager (src/hw-3.js): a registry of named timer descriptors with *)
(* add / remove / start / stop / pause / resume, a safe job wrapper and an *)
(* execution log.  The platform timer facility (setTimeout, setInterval,   *)
(* clearTimeout, clearInterval) is modelled as a table of pending timers   *)
(* each of which the event loop may fire.                                  *)
(***************************************************************************)
EXTENDS Integers, Sequences, FiniteSets, TLC

(***************************************************************************)
(* Bounds of the model.                                                    *)
(***************************************************************************)
\* most platform timers pending at one time
MaxPending == 2
\* most entries in the log
MaxLog == 1

(***************************************************************************)
(* JavaScript values: a type tag as typeof reports it ("null" and "error"  *)
(* stand for the null value and an Error object), a string and a number.   *)
(* Booleans keep their value in n (1 = true, 0 = false).                   *)
(***************************************************************************)
Str(s) == [typ |-> "string", s |-> s, n |-> 0]
Num(n) == [typ |-> "number", s |-> "", n |-> n]
Bool(b) == [typ |-> "boolean", s |-> "", n |-> IF b THEN 1 ELSE 0]
Fn(f) == [typ |-> "function", s |-> f, n |-> 0]
Err(m) == [typ |-> "error", s |-> m, n |-> 0]
Undefined == [typ |-> "undefined", s |-> "", n |-> 0]
JSNull == [typ |-> "null", s |-> "", n |-> 0]

\* what `if (v)` and `!v` see
Truthy(v) ==
    CASE v.typ = "undefined" -> FALSE
      [] v.typ = "null" -> FALSE
      [] v.typ = "string" -> v.s # ""
      [] v.typ = "number" -> v.n # 0
      [] v.typ = "boolean" -> v.n = 1
      [] OTHER -> TRUE

\* the absent handle: descriptor.timerId = null; platform handles are 1, 2, ...
Null == 0

(***************************************************************************)
(* The descriptor objects the caller holds.  id is the object's identity;  *)
(* the objects with id 0 are never accepted by add, so they carry no state.*)
(***************************************************************************)
Descriptor(id, name, delay, interval, job) ==
    [id |-> id, name |-> name, delay |-> delay, interval |-> interval, job |-> job]

\* t2 and t5 of the script, t5 made recurring with a job that throws
ValidDescriptors ==
    { Descriptor(1, Str("t2"), Num(1000), Bool(FALSE), Fn("sum")),
      Descriptor(2, Str("t5"), Num(1200), Bool(TRUE), Fn("throw")) }

Objects == { d.id : d \in ValidDescriptors }

Desc(o) == CHOOSE d \in ValidDescriptors : d.id = o

\* descriptors with one fault each, and three with more than one
InvalidDescriptors ==
    { Descriptor(0, Str(""), Num(1000), Bool(TRUE), Fn("sum")),
      Descriptor(0, Undefined, Num(1000), Bool(TRUE), Fn("sum")),
      Descriptor(0, Str("t7"), Str("1000"), Bool(TRUE), Fn("sum")),
      Descriptor(0, Str("t7"), Num(-1), Bool(TRUE), Fn("sum")),
      Descriptor(0, Str("t7"), Num(5001), Bool(FALSE), Fn("sum")),
      Descriptor(0, Str("t7"), Num(1000), Num(1), Fn("sum")),
      Descriptor(0, Str("t7"), Num(1000), Bool(FALSE), Undefined),
      Descriptor(0, Str("t2"), Str("1000"), Bool(TRUE), Fn("sum")),
      Descriptor(0, Str("t7"), Num(-1), Undefined, Fn("sum")),
      Descriptor(0, Num(7), Num(5001), Bool(TRUE), Str("sum")) }

Descriptors == ValidDescriptors \cup InvalidDescriptors

\* the argument lists of the script's add calls
Params == { <<1, 2>>, <<22, 33>> }

\* the add calls the caller makes: t5 with the second argument list, every
\* other descriptor with the first
AddCalls ==
    { <<d, params>> \in Descriptors \X Params : (d.id = 2) = (params = <<22, 33>>) }

\* the names the caller passes to pause, resume and remove
Names == { Str("t2"), Str("t5"), Str("") }

(***************************************************************************)
(* The jobs: what a call of the function does with its arguments.          *)
(***************************************************************************)
RECURSIVE Sum(_)
Sum(s) == IF s = <<>> THEN 0 ELSE Head(s) + Sum(Tail(s))

\* what the job may do when called with args: return a value or throw one; the
\* throwing job throws an Error or, as any JavaScript function may, null
Call(job, args) ==
    IF job.s = "sum"
    THEN { [threw |-> FALSE, value |-> Num(Sum(args))] }
    ELSE { [threw |-> TRUE, value |-> Err("We have a problem!")],
           [threw |-> TRUE, value |-> JSNull] }

VARIABLES
    timers,          \* this.timers: the registry, a sequence of object ids
    allStarted,      \* this.allStarted
    logData,         \* this.logData
    callbackParams,  \* descriptor.callbackParams of each object
    timerId,         \* descriptor.timerId of each object
    pending,         \* the platform's pending timers
    uncaught,        \* an exception escaped a timer callback
    ret              \* the last call and its outcome

vars == <<timers, allStarted, logData, callbackParams, timerId, pending, uncaught, ret>>

\* what the last call was and how it ended: kind is "ok" or the error thrown,
\* val the value returned
Return(op, kind, val) == [op |-> op, kind |-> kind, val |-> val]

Init ==
    /\ timers = <<>>
    /\ allStarted = FALSE
    /\ logData = <<>>
    /\ callbackParams = [o \in Objects |-> <<>>]
    /\ timerId = [o \in Objects |-> Null]
    /\ pending = {}
    /\ uncaught = FALSE
    /\ ret = Return("new", "ok", 0)

(***************************************************************************)
(* The platform timer facility.                                            *)
(***************************************************************************)
\* a handle no pending timer has and no descriptor still holds
FreshId(pend, tid) ==
    CHOOSE n \in 1..(Cardinality(pend) + Cardinality(Objects) + 1) :
        /\ n \notin { t.id : t \in pend } \cup { tid[o] : o \in Objects }
        /\ \A m \in 1..(n - 1) :
               m \in { t.id : t \in pend } \cup { tid[o] : o \in Objects }

\* setTimeout(safeJob, delay) / setInterval(safeJob, delay): safeJob closes over
\* the descriptor object, its job and the callbackParams read at arming
SetTimer(kind, o, job, params, delay, pend, tid) ==
    [id |-> FreshId(pend, tid), kind |-> kind, descriptor |-> o, job |-> job,
     callbackParams |-> params, delay |-> delay]

\* clearTimeout(id) / clearInterval(id): either cancels a pending timer of either
\* kind, and does nothing for a handle that is no longer pending
ClearTimer(id, pend) == { t \in pend : t.id # id }

\* the pending timers whose callback belongs to descriptor object o
TimersOf(o, pend) == { t \in pend : t.descriptor = o }

(***************************************************************************)
(* TimersManager                                                           *)
(***************************************************************************)
\* _log(descriptor, out, error): the entry pushed on logData (created is left out)
LogEntry(o, params, out, error) ==
    [name |-> Desc(o).name.s, in |-> params, out |-> out,
     error |-> IF Truthy(error)
               THEN [present |-> TRUE,
                     name |-> IF error.typ = "error" THEN "Error" ELSE "",
                     message |-> IF error.typ = "error" THEN error.s ELSE ""]
               ELSE [present |-> FALSE, name |-> "", message |-> ""]]

\* _findTimerIndex(timerName): the 0-based index of the first descriptor with
\* that name, -1 when there is none, a TypeError for a name that is no non-empty
\* string
FindTimerIndex(timerName, reg) ==
    IF timerName.typ # "string" \/ ~Truthy(timerName)
    THEN [kind |-> "TypeError", val |-> -1]
    ELSE LET hits == { i \in 1..Len(reg) : Desc(reg[i]).name = timerName }
         IN  [kind |-> "ok",
              val |-> IF hits = {} THEN -1
                      ELSE (CHOOSE i \in hits : \A j \in hits : i <= j) - 1]

\* _startTimer without the `if (!timerId)` guard: it arms whatever the handle is
StartTimerAlways(o, pend, tid, params) ==
    LET d == Desc(o)
        t == SetTimer(IF Truthy(d.interval) THEN "interval" ELSE "timeout",
                      o, d.job, params[o], d.delay.n, pend, tid)
    IN  [newTimerId |-> t.id, pending |-> pend \cup {t}]

\* _startTimer(descriptor): the new handle and the platform's timers
StartTimer(o, pend, tid, params) ==
    IF tid[o] = Null
    THEN LET d == Desc(o)
             t == SetTimer(IF Truthy(d.interval) THEN "interval" ELSE "timeout",
                           o, d.job, params[o], d.delay.n, pend, tid)
         IN  [newTimerId |-> t.id, pending |-> pend \cup {t}]
    ELSE [newTimerId |-> Null, pending |-> pend]

\* _stopTimer(descriptor)
StopTimer(o, pend, tid) ==
    IF tid[o] # Null THEN ClearTimer(tid[o], pend) ELSE pend

\* safeJob without its try/catch: a throw leaves the callback and nothing is logged
SafeJobNoCatch(t, r, params) ==
    IF ~r.threw
    THEN [log |-> <<LogEntry(t.descriptor, params[t.descriptor], r.value, Undefined)>>,
          escaped |-> FALSE]
    ELSE [log |-> <<>>, escaped |-> TRUE]

\* safeJob: the entries the callback logs and whether the throw escapes it
SafeJob(t, r, params) ==
    IF ~r.threw
    THEN [log |-> <<LogEntry(t.descriptor, params[t.descriptor], r.value, Undefined)>>,
          escaped |-> FALSE]
    ELSE [log |-> <<LogEntry(t.descriptor, params[t.descriptor], JSNull, r.value)>>,
          escaped |-> FALSE]

\* add with the name looked up before the allStarted check
AddCheckNameFirst(d, reg, started) ==
    IF FindTimerIndex(d.name, reg).kind # "ok" THEN "TypeError"
    ELSE IF started THEN "Error"
    ELSE IF FindTimerIndex(d.name, reg).val >= 0 THEN "Error"
    ELSE IF d.delay.typ # "number" THEN "TypeError"
    ELSE IF d.delay.n < 0 \/ d.delay.n > 5000 THEN "RangeError"
    ELSE IF d.interval.typ # "boolean" THEN "TypeError"
    ELSE IF d.job.typ # "function" THEN "TypeError"
    ELSE "ok"

\* add without the check for a name that is already registered
AddCheckNoDuplicate(d, reg, started) ==
    IF started THEN "Error"
    ELSE IF FindTimerIndex(d.name, reg).kind # "ok" THEN "TypeError"
    ELSE IF d.delay.typ # "number" THEN "TypeError"
    ELSE IF d.delay.n < 0 \/ d.delay.n > 5000 THEN "RangeError"
    ELSE IF d.interval.typ # "boolean" THEN "TypeError"
    ELSE IF d.job.typ # "function" THEN "TypeError"
    ELSE "ok"

\* add throwing a TypeError for a delay out of range
AddCheckRangeAsType(d, reg, started) ==
    IF started THEN "Error"
    ELSE IF FindTimerIndex(d.name, reg).kind # "ok" THEN "TypeError"
    ELSE IF FindTimerIndex(d.name, reg).val >= 0 THEN "Error"
    ELSE IF d.delay.typ # "number" THEN "TypeError"
    ELSE IF d.delay.n < 0 \/ d.delay.n > 5000 THEN "TypeError"
    ELSE IF d.interval.typ # "boolean" THEN "TypeError"
    ELSE IF d.job.typ # "function" THEN "TypeError"
    ELSE "ok"

\* the outcome of add's checks, in the order the code makes them
AddCheck(d, reg, started) ==
    IF started THEN "Error"
    ELSE IF FindTimerIndex(d.name, reg).kind # "ok" THEN "TypeError"
    ELSE IF FindTimerIndex(d.name, reg).val >= 0 THEN "Error"
    ELSE IF d.delay.typ # "number" THEN "TypeError"
    ELSE IF d.delay.n < 0 \/ d.delay.n > 5000 THEN "RangeError"
    ELSE IF d.interval.typ # "boolean" THEN "TypeError"
    ELSE IF d.job.typ # "function" THEN "TypeError"
    ELSE "ok"

\* add(descriptor, ...callbackParams)
add(d, params) ==
    LET kind == AddCheck(d, timers, allStarted)
    IN  /\ IF kind = "ok"
           THEN /\ callbackParams' = [callbackParams EXCEPT ![d.id] = params]
                /\ timerId' = [timerId EXCEPT ![d.id] = Null]
                /\ timers' = Append(timers, d.id)
           ELSE UNCHANGED <<callbackParams, timerId, timers>>
        /\ ret' = Return("add", kind, 0)
        /\ UNCHANGED <<allStarted, logData, pending, uncaught>>

\* pause without `this.timers[idx].timerId = null`
PausedKeepsHandle(timerName) ==
    LET f == FindTimerIndex(timerName, timers)
        o == timers[f.val + 1]
    IN  IF f.kind = "ok" /\ f.val >= 0
        THEN [kind |-> "ok", val |-> f.val,
              pending |-> StopTimer(o, pending, timerId),
              timerId |-> timerId]
        ELSE [kind |-> f.kind, val |-> f.val, pending |-> pending, timerId |-> timerId]

\* pause(timerName), as remove also calls it: the index and the state it leaves
Paused(timerName) ==
    LET f == FindTimerIndex(timerName, timers)
        o == timers[f.val + 1]
    IN  IF f.kind = "ok" /\ f.val >= 0
        THEN [kind |-> "ok", val |-> f.val,
              pending |-> StopTimer(o, pending, timerId),
              timerId |-> [timerId EXCEPT ![o] = Null]]
        ELSE [kind |-> f.kind, val |-> f.val, pending |-> pending, timerId |-> timerId]

pause(timerName) ==
    LET r == Paused(timerName)
    IN  /\ pending' = r.pending
        /\ timerId' = r.timerId
        /\ ret' = Return("pause", r.kind, r.val)
        /\ UNCHANGED <<timers, allStarted, logData, callbackParams, uncaught>>

\* splice(idx) without its delete count: everything from idx on is removed
SpliceToEnd(reg, idx) == SubSeq(reg, 1, idx)

\* the registry without its element at 0-based index idx: splice(idx, 1)
Splice(reg, idx) == SubSeq(reg, 1, idx) \o SubSeq(reg, idx + 2, Len(reg))

\* remove(timerName)
remove(timerName) ==
    LET r == Paused(timerName)
    IN  /\ pending' = r.pending
        /\ timerId' = r.timerId
        /\ timers' = IF r.kind = "ok" /\ r.val >= 0 THEN Splice(timers, r.val) ELSE timers
        /\ ret' = Return("remove", r.kind, 0)
        /\ UNCHANGED <<allStarted, logData, callbackParams, uncaught>>

\* the forEach of start from registry position i on
RECURSIVE StartAll(_, _, _)
StartAll(i, pend, tid) ==
    IF i > Len(timers) THEN [pending |-> pend, timerId |-> tid]
    ELSE LET r == StartTimer(timers[i], pend, tid, callbackParams)
         IN  StartAll(i + 1, r.pending, [tid EXCEPT ![timers[i]] = r.newTimerId])

\* the forEach of stop without `descriptor.timerId = null`
RECURSIVE StopAllKeepsHandle(_, _, _)
StopAllKeepsHandle(i, pend, tid) ==
    IF i > Len(timers) THEN [pending |-> pend, timerId |-> tid]
    ELSE StopAllKeepsHandle(i + 1, StopTimer(timers[i], pend, tid), tid)

\* the forEach of stop from registry position i on
RECURSIVE StopAll(_, _, _)
StopAll(i, pend, tid) ==
    IF i > Len(timers) THEN [pending |-> pend, timerId |-> tid]
    ELSE StopAll(i + 1, StopTimer(timers[i], pend, tid), [tid EXCEPT ![timers[i]] = Null])

\* start() arming the timers whether or not allStarted is set
startAlways ==
    LET r == StartAll(1, pending, timerId)
    IN  /\ Cardinality(r.pending) <= MaxPending
        /\ pending' = r.pending
        /\ timerId' = r.timerId
        /\ allStarted' = TRUE
        /\ ret' = Return("start", "ok", 0)
        /\ UNCHANGED <<timers, logData, callbackParams, uncaught>>

\* start()
start ==
    LET r == IF ~allStarted THEN StartAll(1, pending, timerId)
             ELSE [pending |-> pending, timerId |-> timerId]
    IN  /\ Cardinality(r.pending) <= MaxPending
        /\ pending' = r.pending
        /\ timerId' = r.timerId
        /\ allStarted' = TRUE
        /\ ret' = Return("start", "ok", 0)
        /\ UNCHANGED <<timers, logData, callbackParams, uncaught>>

\* stop()
stop ==
    LET r == IF allStarted THEN StopAll(1, pending, timerId)
             ELSE [pending |-> pending, timerId |-> timerId]
    IN  /\ pending' = r.pending
        /\ timerId' = r.timerId
        /\ allStarted' = FALSE
        /\ ret' = Return("stop", "ok", 0)
        /\ UNCHANGED <<timers, logData, callbackParams, uncaught>>

\* resume(timerName)
resume(timerName) ==
    LET f == FindTimerIndex(timerName, timers)
        o == timers[f.val + 1]
        r == IF f.kind = "ok" /\ f.val >= 0
             THEN StartTimer(o, pending, timerId, callbackParams)
             ELSE [newTimerId |-> Null, pending |-> pending]
    IN  /\ Cardinality(r.pending) <= MaxPending
        /\ pending' = r.pending
        /\ timerId' = IF f.kind = "ok" /\ f.val >= 0
                      THEN [timerId EXCEPT ![o] = r.newTimerId] ELSE timerId
        /\ ret' = Return("resume", f.kind, f.val)
        /\ UNCHANGED <<timers, allStarted, logData, callbackParams, uncaught>>

\* the callback of a one-shot also resetting its descriptor's timerId to null
FireClearsHandle(t, outcome) ==
    LET r == SafeJob(t, outcome, callbackParams)
    IN  /\ Len(logData) + Len(r.log) <= MaxLog
        /\ pending' = IF t.kind = "timeout" THEN pending \ {t} ELSE pending
        /\ timerId' = IF t.kind = "timeout"
                      THEN [timerId EXCEPT ![t.descriptor] = Null] ELSE timerId
        /\ logData' = logData \o r.log
        /\ uncaught' = (uncaught \/ r.escaped)
        /\ ret' = Return("fire", IF r.escaped THEN "uncaught" ELSE "ok", 0)
        /\ UNCHANGED <<timers, allStarted, callbackParams>>

\* the callback with _log assigning a new array to logData instead of pushing
FireOverwrites(t, outcome) ==
    LET r == SafeJob(t, outcome, callbackParams)
    IN  /\ Len(r.log) <= MaxLog
        /\ pending' = IF t.kind = "timeout" THEN pending \ {t} ELSE pending
        /\ logData' = r.log
        /\ uncaught' = (uncaught \/ r.escaped)
        /\ ret' = Return("fire", IF r.escaped THEN "uncaught" ELSE "ok", 0)
        /\ UNCHANGED <<timers, allStarted, callbackParams, timerId>>

\* the event loop runs the callback of pending timer t, whose job ends as outcome;
\* a timeout is then spent, an interval stays pending.  Expiry times are left to
\* the platform: any pending timer may be the next to fire.
Fire(t, outcome) ==
    LET r == SafeJob(t, outcome, callbackParams)
    IN  /\ Len(logData) + Len(r.log) <= MaxLog
        /\ pending' = IF t.kind = "timeout" THEN pending \ {t} ELSE pending
        /\ logData' = logData \o r.log
        /\ uncaught' = (uncaught \/ r.escaped)
        /\ ret' = Return("fire", IF r.escaped THEN "uncaught" ELSE "ok", 0)
        /\ UNCHANGED <<timers, allStarted, callbackParams, timerId>>

\* what print() hands out: `return this.logData` is the log array itself
\* (alias), not a copy of it
Printed(log) == [alias |-> TRUE, entries |-> log]

\* print()
print ==
    /\ ret' = Return("print", "ok", Len(Printed(logData).entries))
    /\ UNCHANGED <<timers, allStarted, logData, callbackParams, timerId, pending, uncaught>>

\* the caller, holding the array print() just returned, calls pop() on it: the
\* manager's log loses its last entry exactly when that array is the log itself
CallerPops ==
    /\ ret.op = "print"
    /\ Printed(logData).entries # <<>>
    /\ logData' = IF Printed(logData).alias
                  THEN SubSeq(logData, 1, Len(logData) - 1) ELSE logData
    /\ ret' = Return("pop", "ok", 0)
    /\ UNCHANGED <<timers, allStarted, callbackParams, timerId, pending, uncaught>>

Next ==
    \/ \E c \in AddCalls : add(c[1], c[2])
    \/ \E timerName \in Names : remove(timerName)
    \/ start
    \/ stop
    \/ \E timerName \in Names : pause(timerName)
    \/ \E timerName \in Names : resume(timerName)
    \/ \E t \in pending : \E outcome \in Call(t.job, t.callbackParams) : Fire(t, outcome)

Spec == Init /\ [][Next]_vars

\* the manager used by a caller that also reads the log and pops what it got
NextPrint == Next \/ print \/ CallerPops

SpecPrint == Init /\ [][NextPrint]_vars

\* the manager as `add(t2, 1, 2); start(); stop()` leaves it
InitRestart ==
    /\ timers = <<1>>
    /\ allStarted = FALSE
    /\ logData = <<>>
    /\ callbackParams = [o \in Objects |-> IF o = 1 THEN <<1, 2>> ELSE <<>>]
    /\ timerId = [o \in Objects |-> Null]
    /\ pending = {}
    /\ uncaught = FALSE
    /\ ret = Return("stop", "ok", 0)

\* every behaviour of the manager from there on: all of it is after a stop()
SpecRestart == InitRestart /\ [][Next]_vars

(***************************************************************************)
(* Vocabulary of the properties.                                           *)
(***************************************************************************)
\* the descriptor objects in the registry reg
Registered(reg) == { reg[i] : i \in 1..Len(reg) }

\* the registry positions that hold a descriptor named name
Positions(name, reg) == { i \in 1..Len(reg) : Desc(reg[i]).name = name }

\* the object a registered name resolves to
Named(name, reg) == reg[CHOOSE i \in Positions(name, reg) : TRUE]

\* descriptor object o holds a handle and that handle's timer is pending for o
ArmedWithHandle(o, tid, pend) ==
    /\ tid[o] # Null
    /\ \E t \in TimersOf(o, pend) : t.id = tid[o]

\* timer t is what arming descriptor object o with its stored fields sets up
ArmedAsStored(t, o, params) ==
    /\ t.descriptor = o
    /\ t.kind = (IF Desc(o).interval = Bool(TRUE) THEN "interval" ELSE "timeout")
    /\ t.delay = Desc(o).delay.n
    /\ t.job = Desc(o).job
    /\ t.callbackParams = params[o]

\* the last entry of a log
Last(log) == log[Len(log)]

(***************************************************************************)
(* C1.  In every reachable state a registered descriptor whose timerId is  *)
(* null has no pending platform timer.                                     *)
(***************************************************************************)
C1_NullHandleHasNoTimer ==
    \A o \in Registered(timers) : timerId[o] = Null => TimersOf(o, pending) = {}

(***************************************************************************)
(* C2.  stop() called while allStarted is true leaves allStarted false,    *)
(* every registered descriptor's timerId null and no platform timer of a   *)
(* registered descriptor pending, so that no job of theirs can fire.       *)
(***************************************************************************)
C2_StopStopsAllTimers ==
    [][(allStarted /\ stop) =>
          /\ ~allStarted'
          /\ \A o \in Registered(timers') :
                 timerId'[o] = Null /\ TimersOf(o, pending') = {}]_vars

(***************************************************************************)
(* C3.  start() called while allStarted is false sets allStarted and       *)
(* leaves every registered descriptor with a handle and exactly one pending*)
(* platform timer, armed as a timeout or an interval per its interval flag *)
(* with its delay, whatever pause and resume calls came before.            *)
(***************************************************************************)
C3_StartArmsEveryTimerOnce ==
    [][(~allStarted /\ start) =>
          /\ allStarted'
          /\ \A o \in Registered(timers') :
                 /\ ArmedWithHandle(o, timerId', pending')
                 /\ Cardinality(TimersOf(o, pending')) = 1
                 /\ \A t \in TimersOf(o, pending') : ArmedAsStored(t, o, callbackParams')]_vars

(***************************************************************************)
(* C4.  When resume(name) returns a non-negative index, the descriptor at  *)
(* that index holds a handle and a platform timer armed with its stored    *)
(* delay, interval flag and arguments is pending for it.                   *)
(***************************************************************************)
C4_ResumeArms ==
    (ret.op = "resume" /\ ret.kind = "ok" /\ ret.val >= 0) =>
        LET o == timers[ret.val + 1]
        IN  /\ ArmedWithHandle(o, timerId, pending)
            /\ \E t \in TimersOf(o, pending) :
                   t.id = timerId[o] /\ ArmedAsStored(t, o, callbackParams)

(***************************************************************************)
(* C5.  remove(name) of a registered name leaves the name out of the       *)
(* registry, no platform timer of that descriptor pending and the other    *)
(* descriptors in their order; remove of a name that is not registered     *)
(* changes nothing.                                                        *)
(***************************************************************************)
C5_RemoveDisarmsAndDeletes ==
    [][\A name \in Names : (ret'.op = "remove" /\ remove(name)) =>
          IF name.typ = "string" /\ Positions(name, timers) # {}
          THEN LET o == Named(name, timers)
               IN  /\ Positions(name, timers') = {}
                   /\ TimersOf(o, pending') = {}
                   /\ timers' = SelectSeq(timers, LAMBDA x : x # o)
          ELSE UNCHANGED <<timers, allStarted, logData, callbackParams, timerId, pending>>]_vars

(***************************************************************************)
(* C6.  add called while allStarted is true fails with the state error     *)
(* (Error), whatever the descriptor and the registry, and leaves the       *)
(* registry, the flag and the log as they were.                            *)
(***************************************************************************)
C6_AddAfterStartFails ==
    [][\A c \in AddCalls : (allStarted /\ ret'.op = "add" /\ add(c[1], c[2])) =>
          /\ ret'.kind = "Error"
          /\ UNCHANGED <<timers, allStarted, logData, callbackParams, timerId, pending>>]_vars

\* an add was refused while the manager was started and held timers
C6_Witness ==
    ret.op = "add" /\ ret.kind = "Error" /\ allStarted /\ Len(timers) = 2

(***************************************************************************)
(* C7.  The registry never holds two descriptors of one name; a successful *)
(* add appends the descriptor with a null handle and leaves exactly one    *)
(* entry of its name; add of a name that is registered fails and leaves    *)
(* the registry as it was.                                                 *)
(***************************************************************************)
C7_NameUniqueness ==
    /\ [](\A i, j \in 1..Len(timers) :
              Desc(timers[i]).name = Desc(timers[j]).name => i = j)
    /\ [][\A c \in AddCalls : (ret'.op = "add" /\ add(c[1], c[2])) =>
             /\ ret'.kind = "ok" =>
                    /\ timers' = Append(timers, c[1].id)
                    /\ timerId'[c[1].id] = Null
                    /\ Cardinality(Positions(c[1].name, timers')) = 1
             /\ (c[1].name.typ = "string" /\ Positions(c[1].name, timers) # {}) =>
                    /\ ret'.kind \in {"Error", "TypeError", "RangeError"}
                    /\ timers' = timers]_vars

\* an add of a registered name was refused while add was allowed
C7_Witness ==
    ret.op = "add" /\ ret.kind = "Error" /\ ~allStarted /\ Len(timers) = 2

\* the faults add documents for a descriptor and the error kinds they call for
TypeFault(d) ==
    \/ d.name.typ # "string" \/ d.name.s = ""
    \/ d.delay.typ # "number"
    \/ d.interval.typ # "boolean"
    \/ d.job.typ # "function"

RangeFault(d) == d.delay.typ = "number" /\ (d.delay.n < 0 \/ d.delay.n > 5000)

DocumentedKinds(d, reg) ==
    (IF TypeFault(d) THEN {"TypeError"} ELSE {})
        \cup (IF RangeFault(d) THEN {"RangeError"} ELSE {})
        \cup (IF d.name.typ = "string" /\ Positions(d.name, reg) # {} THEN {"Error"} ELSE {})

(***************************************************************************)
(* C8.  While allStarted is false, add of a descriptor with a fault fails  *)
(* with an error kind documented for a fault the descriptor has and leaves *)
(* the registry as it was: TypeError for a name that is no non-empty       *)
(* string, a delay that is no number, an interval that is no boolean, a job*)
(* that is no function; RangeError for a numeric delay outside [0, 5000];  *)
(* Error when the name is registered already.                              *)
(***************************************************************************)
C8_InvalidAddFails ==
    [][\A c \in AddCalls :
          (~allStarted /\ ret'.op = "add" /\ (TypeFault(c[1]) \/ RangeFault(c[1]))
              /\ add(c[1], c[2])) =>
              /\ ret'.kind \in DocumentedKinds(c[1], timers)
              /\ UNCHANGED <<timers, allStarted, logData, callbackParams, timerId, pending>>]_vars

\* an add was refused for its delay's range while the registry held descriptors
C8_Witness ==
    ret.op = "add" /\ ret.kind = "RangeError" /\ ~allStarted /\ timers # <<>>

(***************************************************************************)
(* C9.  Every firing, whether the job returns or throws, appends exactly   *)
(* one log entry carrying the firing descriptor's name and bound arguments;*)
(* when the job throws, the entry's error record is populated.             *)
(***************************************************************************)
C9_OneEntryPerInvocation ==
    [][\A t \in pending : \A outcome \in Call(t.job, t.callbackParams) :
          (ret'.op = "fire" /\ Fire(t, outcome)) =>
              /\ Len(logData') = Len(logData) + 1
              /\ SubSeq(logData', 1, Len(logData)) = logData
              /\ Last(logData').name = Desc(t.descriptor).name.s
              /\ Last(logData').in = callbackParams[t.descriptor]
              /\ Last(logData').in = t.callbackParams
              /\ outcome.threw => Last(logData').error.present]_vars

C12_StartWhileStartedIsNoOp ==
    [][(allStarted /\ ret'.op = "start") =>
          UNCHANGED <<timers, allStarted, logData, callbackParams, timerId, pending, uncaught>>]_vars

\* start() has returned and the recurring t5 is registered but not armed, which
\* only a start() that did nothing leaves behind
C12_Witness ==
    /\ ret.op = "start"
    /\ allStarted
    /\ 2 \in Registered(timers)
    /\ timerId[2] = Null
    /\ TimersOf(2, pending) = {}

(***************************************************************************)
(* C13.  pause(name) returns the registry index of name, or -1 when name   *)
(* is not registered; for a registered name the handle is null afterwards  *)
(* and no platform timer of the descriptor is pending, so its job does not *)
(* fire; pausing a timer whose handle is null already changes nothing;     *)
(* pause and resume of a name that is not registered return -1 and change  *)
(* nothing.                                                                *)
(***************************************************************************)
C13_PauseDisarms ==
    [][\A name \in Names :
          /\ (ret'.op = "pause" /\ name.typ = "string" /\ name.s # "" /\ pause(name)) =>
                 IF Positions(name, timers) # {}
                 THEN LET o == Named(name, timers)
                      IN  /\ ret'.kind = "ok"
                          /\ ret'.val + 1 \in Positions(name, timers)
                          /\ timerId'[o] = Null
                          /\ TimersOf(o, pending') = {}
                          /\ timerId[o] = Null =>
                                 UNCHANGED <<timers, allStarted, logData, callbackParams,
                                             timerId, pending>>
                 ELSE /\ ret'.kind = "ok"
                      /\ ret'.val = -1
                      /\ UNCHANGED <<timers, allStarted, logData, callbackParams,
                                     timerId, pending>>
          /\ (ret'.op = "resume" /\ name.typ = "string" /\ name.s # ""
                 /\ Positions(name, timers) = {} /\ resume(name)) =>
                 /\ ret'.kind = "ok"
                 /\ ret'.val = -1
                 /\ UNCHANGED <<timers, allStarted, logData, callbackParams,
                                timerId, pending>>]_vars

(***************************************************************************)
(* C14.  resume(name) called right after pause(name) of the same           *)
(* registered name, from any state: both calls return without error, the   *)
(* same non-negative index, and after the resume the descriptor holds a    *)
(* handle whose platform timer is pending, armed with its stored fields.   *)
(***************************************************************************)
C14_PauseThenResume ==
    [][\A name \in Names :
          (ret.op = "pause" /\ ret.kind = "ok" /\ ret.val >= 0
              /\ ret'.op = "resume" /\ name.typ = "string"
              /\ ret.val + 1 \in Positions(name, timers) /\ resume(name)) =>
              LET o == timers[ret.val + 1]
              IN  /\ ret'.kind = "ok"
                  /\ ret'.val = ret.val
                  /\ ArmedWithHandle(o, timerId', pending')
                  /\ \E t \in TimersOf(o, pending') :
                         t.id = timerId'[o] /\ ArmedAsStored(t, o, callbackParams')]_vars

\* the manager is started, resume has returned t5's index and t5 holds the handle
\* of its only pending timer: the timer start armed was cleared by a pause
C14_Witness ==
    /\ ret.op = "resume" /\ ret.kind = "ok" /\ ret.val >= 0
    /\ timers[ret.val + 1] = 2
    /\ allStarted
    /\ ArmedWithHandle(2, timerId, pending)
    /\ Cardinality(TimersOf(2, pending)) = 1

C17_PrintNotCorruptible ==
    [][ret'.op = "pop" => logData' = logData]_vars

(***************************************************************************)
(* C18.  pause, resume and remove change only the named descriptor: the    *)
(* log, the allStarted flag and the stored parameters stay as they were,   *)
(* every other descriptor keeps its handle and its pending timers, pause   *)
(* and resume keep the registry, and remove takes out the named descriptor *)
(* only, the ones after it moving up one position in their order.          *)
(***************************************************************************)
C18_OnlyNamedDescriptorChanges ==
    [][\A name \in Names :
          (ret'.op \in {"pause", "resume", "remove"}
              /\ (pause(name) \/ resume(name) \/ remove(name))) =>
              LET found == name.typ = "string" /\ Positions(name, timers) # {}
                  i == CHOOSE p \in Positions(name, timers) : TRUE
              IN  /\ logData' = logData
                  /\ allStarted' = allStarted
                  /\ callbackParams' = callbackParams
                  /\ \A o \in Objects :
                         (~found \/ o # Named(name, timers)) =>
                             /\ timerId'[o] = timerId[o]
                             /\ TimersOf(o, pending') = TimersOf(o, pending)
                  /\ IF found /\ ret'.op = "remove"
                     THEN /\ Len(timers') = Len(timers) - 1
                          /\ \A j \in 1..Len(timers') :
                                 timers'[j] = IF j < i THEN timers[j] ELSE timers[j + 1]
                     ELSE timers' = timers]_vars

\* remove("t2") has run on a started manager holding t2 and t5 after t2 fired:
\* t5 is still armed with its handle, the flag is set and the log has its entry
C18_Witness ==
    /\ ret.op = "remove" /\ timers = <<2>> /\ allStarted /\ logData # <<>>
    /\ ArmedWithHandle(2, timerId, pending)

(***************************************************************************)
(* C19.  resume is not gated on the flag: while allStarted is false,       *)
(* resume of a registered name arms that descriptor's timer and stores its *)
(* handle; stop() called while allStarted is false changes nothing, so the *)
(* timer stays armed; and while allStarted is false a pending timer goes   *)
(* away only through pause or remove (or by firing as a one-shot).         *)
(***************************************************************************)
C19_ResumeNotGatedOnFlag ==
    [][/\ \A name \in Names :
              (ret'.op = "resume" /\ ~allStarted /\ name.typ = "string"
                  /\ Positions(name, timers) # {} /\ resume(name)) =>
                  /\ ret'.kind = "ok"
                  /\ ArmedWithHandle(Named(name, timers), timerId', pending')
       /\ (ret'.op = "stop" /\ ~allStarted) =>
              /\ pending' = pending /\ timerId' = timerId
              /\ timers' = timers /\ allStarted' = FALSE
       /\ (~allStarted /\ pending \ pending' # {}) =>
              ret'.op \in {"pause", "remove", "fire"}]_vars

\* descriptor object o holds a handle whose timer is no longer pending
Stale(o, tid, pend) ==
    /\ tid[o] # Null
    /\ \A t \in pend : t.id # tid[o]

====
